---- MODULE Spec2Model ----
(***************************************************************************)
(* nsight: reads an nmap -oN report, collects the open TCP ports and       *)
(* reports every composite-service signature whose required ports are all  *)
(* open.  Strings are sequences of one-character strings so that the       *)
(* scanner's trimming, the regular expression and Atoi/Itoa are computed   *)
(* character by character.  Output is a sequence of print records (the     *)
(* ANSI styling that style() wraps around each piece is not part of them). *)
(***************************************************************************)
EXTENDS Integers, Sequences, FiniteSets, TLC

\* ---- bounds of the model ------------------------------------------------
\* ports added to a base port set when the input report is drawn
MaxExtra == 1
\* whitespace characters between "/tcp" and the state in the probe line
MaxGap == 2
\* leading blanks of the probe line
MaxLead == 1

\* ---- strings ------------------------------------------------------------
Digits == <<"0", "1", "2", "3", "4", "5", "6", "7", "8", "9">>

IsDigit(c) == \E d \in 1..10 : Digits[d] = c

DigitVal(c) == (CHOOSE d \in 1..10 : Digits[d] = c) - 1

\* strconv.Itoa for n >= 0
RECURSIVE Itoa(_)
Itoa(n) == IF n < 10 THEN <<Digits[n + 1]>>
           ELSE Itoa(n \div 10) \o <<Digits[(n % 10) + 1]>>

\* strconv.Atoi on a non-empty run of digits (as captured by \d+); the digit
\* runs of the model are short enough that the value fits an int.
RECURSIVE AtoiFrom(_, _, _)
AtoiFrom(s, k, acc) == IF k > Len(s) THEN acc
                       ELSE AtoiFrom(s, k + 1, 10 * acc + DigitVal(s[k]))

Atoi(s) == AtoiFrom(s, 1, 0)

\* the white space strings.TrimSpace removes and \s matches, as far as the
\* scanner can deliver it inside a line
IsSpace(c) == c \in {" ", "\t", "\r", "\f"}

RECURSIVE TrimLeft(_)
TrimLeft(s) == IF s # <<>> /\ IsSpace(Head(s)) THEN TrimLeft(Tail(s)) ELSE s

RECURSIVE TrimRight(_)
TrimRight(s) == IF s # <<>> /\ IsSpace(s[Len(s)])
                THEN TrimRight(SubSeq(s, 1, Len(s) - 1)) ELSE s

TrimSpace(s) == TrimRight(TrimLeft(s))

\* number of leading characters of s, from position k on, that satisfy the class
RECURSIVE RunOfDigits(_, _)
RunOfDigits(s, k) == IF k <= Len(s) /\ IsDigit(s[k]) THEN 1 + RunOfDigits(s, k + 1) ELSE 0

RECURSIVE RunOfSpace(_, _)
RunOfSpace(s, k) == IF k <= Len(s) /\ IsSpace(s[k]) THEN 1 + RunOfSpace(s, k + 1) ELSE 0

HasAt(s, k, lit) == /\ k + Len(lit) - 1 <= Len(s)
                    /\ SubSeq(s, k, k + Len(lit) - 1) = lit

SlashTcp == <<"/", "t", "c", "p">>

OpenWord == <<"o", "p", "e", "n">>

\* regexp ^(\d+)/tcp\s+open : the captured digit run, or <<>> when there is no match
FindStringSubmatch(line) ==
  LET d == RunOfDigits(line, 1)
      w == RunOfSpace(line, d + 5)
  IN  IF /\ d >= 1
         /\ HasAt(line, d + 1, SlashTcp)
         /\ w >= 1
         /\ HasAt(line, d + 5 + w, OpenWord)
      THEN SubSeq(line, 1, d)
      ELSE <<>>

\* the body of parseNmap's scan loop for one line: the port set after the line
ScanOne(ports, text) ==
  LET line == TrimSpace(text)
      m == FindStringSubmatch(line)
  IN  IF m # <<>> /\ Atoi(m) > 0 THEN ports \cup {Atoi(m)} ELSE ports

\* ---- the signature catalog ----------------------------------------------
Sig(n, r, o) == [Name |-> n, Required |-> r, Optional |-> o]

catalogLiteral ==
  << Sig("SMB / NetBIOS file share", <<139, 445>>, <<>>),
     Sig("Active Directory Domain Controller", <<53, 88, 389, 445, 464>>,
         <<636, 3268, 3269, 5985, 9389>>),
     Sig("Windows RPC services (EPM + dynamic RPC)", <<135>>, <<>>),
     Sig("Windows Remote Management / WinRM", <<5985>>, <<5986>>),
     Sig("NFS server (rpcbind + nfsd)", <<111, 2049>>, <<20048, 4045, 4049>>),
     Sig("FTP", <<21>>, <<20>>),
     Sig("Mail stack (SMTP + POP)", <<25, 110>>, <<>>),
     Sig("Mail stack (SMTP + IMAP)", <<25, 143>>, <<>>),
     Sig("Mail stack (SMTP + IMAPS)", <<25, 993>>, <<>>),
     Sig("SIP / VoIP server", <<5060>>, <<>>),
     Sig("Network printer (JetDirect + LPD)", <<515, 9100>>, <<>>),
     Sig("Oracle Database", <<1521>>, <<1522, 2483, 2484>>),
     Sig("MySQL / MariaDB", <<3306>>, <<33060>>),
     Sig("Microsoft SQL Server", <<1433>>, <<>>),
     Sig("PostgreSQL", <<5432>>, <<5433>>),
     Sig("IBM Db2 Database", <<50000>>, <<50001, 50050>>),
     Sig("SAP NetWeaver Application Server", <<3200, 3300>>, <<3600, 8000, 8001, 3299>>),
     Sig("Elasticsearch", <<9200>>, <<9300>>),
     Sig("Splunk Enterprise", <<8000, 8089, 9997>>, <<8088>>),
     Sig("VMware vCenter Server", <<443>>, <<5480, 902>>),
     Sig("MongoDB Database", <<27017>>, <<27018, 27019>>),
     Sig("Redis", <<6379>>, <<26379, 16379>>),
     Sig("Apache Cassandra", <<9042>>, <<7000, 9160>>) >>

\* a catalog whose SQL Server entry lost its required port
knownSignaturesDegenerate == [catalogLiteral EXCEPT ![14].Required = <<>>]

\* a catalog whose first entry declares its required ports in descending order
knownSignaturesUnsorted == [catalogLiteral EXCEPT ![1].Required = <<445, 139>>]

\* a catalog whose vCenter entry also requires the console port
knownSignaturesStrict == [catalogLiteral EXCEPT ![20].Required = <<443, 902>>]

\* knownSignatures(): a fresh slice holding the literal above
knownSignatures == catalogLiteral

\* ---- helpers of main ----------------------------------------------------
Range(s) == {s[k] : k \in 1..Len(s)}

\* hasAll: walk req, return false at the first port not in set
RECURSIVE hasAllFrom(_, _, _)
hasAllFrom(set, req, k) == IF k > Len(req) THEN TRUE
                           ELSE IF req[k] \notin set THEN FALSE
                           ELSE hasAllFrom(set, req, k + 1)

\* returns true as soon as one required port is found
hasAllAny(set, req) == \E k \in 1..Len(req) : req[k] \in set

\* stops one port short of the end of req
hasAllShort(set, req) == \A k \in 1..(Len(req) - 1) : req[k] \in set

hasAll(set, req) == hasAllFrom(set, req, 1)

\* presentOptional: the ports of opt that are in set, in opt's order
RECURSIVE presentFrom(_, _, _)
presentFrom(set, opt, k) == IF k > Len(opt) THEN <<>>
                            ELSE IF opt[k] \in set
                                 THEN <<opt[k]>> \o presentFrom(set, opt, k + 1)
                                 ELSE presentFrom(set, opt, k + 1)

presentOptional(set, opt) == presentFrom(set, opt, 1)

\* diff: the ports of all that are not in subset, in all's order
RECURSIVE diffFrom(_, _, _)
diffFrom(all, m, k) == IF k > Len(all) THEN <<>>
                       ELSE IF all[k] \notin m
                            THEN <<all[k]>> \o diffFrom(all, m, k + 1)
                            ELSE diffFrom(all, m, k + 1)

\* keeps the ports found in subset instead of dropping them
diffKept(all, subset) == SelectSeq(all, LAMBDA p : p \in Range(subset))

diff(all, subset) == diffFrom(all, Range(subset), 1)

\* sort.Ints: insertion of each element into an ascending sequence
RECURSIVE Insert(_, _)
Insert(s, x) == IF s = <<>> THEN <<x>>
                ELSE IF x < Head(s) THEN <<x>> \o s
                ELSE <<Head(s)>> \o Insert(Tail(s), x)

RECURSIVE SortFrom(_, _, _)
SortFrom(s, k, acc) == IF k > Len(s) THEN acc ELSE SortFrom(s, k + 1, Insert(acc, s[k]))

\* joinPorts without its sort.Ints call
joinPortsUnsorted(ports) == ports

\* what joinPorts leaves in its argument slice (and prints): sort.Ints(ports)
joinPorts(ports) == SortFrom(ports, 1, <<>>)

ReadmeFile ==
  <<
  \* # Nmap 7.95 scan initiated Thu Jun  5 20:34:01 2025 as: /usr/lib/nmap/nmap --privileged -oN top-1000-tcp.nmap -Pn 192.168.226.141
  <<"#"," ","N","m","a","p"," ","7",".","9","5"," ","s","c","a","n"," ","i","n","i","t","i","a",
    "t","e","d"," ","T","h","u"," ","J","u","n"," "," ","5"," ","2","0",":","3","4",":","0","1",
    " ","2","0","2","5"," ","a","s",":"," ","/","u","s","r","/","l","i","b","/","n","m","a","p",
    "/","n","m","a","p"," ","-","-","p","r","i","v","i","l","e","g","e","d"," ","-","o","N"," ",
    "t","o","p","-","1","0","0","0","-","t","c","p",".","n","m","a","p"," ","-","P","n"," ","1",
    "9","2",".","1","6","8",".","2","2","6",".","1","4","1">>,
  \* Nmap scan report for 192.168.226.141
  <<"N","m","a","p"," ","s","c","a","n"," ","r","e","p","o","r","t"," ","f","o","r"," ","1","9",
    "2",".","1","6","8",".","2","2","6",".","1","4","1">>,
  \* Host is up (0.12s latency).
  <<"H","o","s","t"," ","i","s"," ","u","p"," ","(","0",".","1","2","s"," ","l","a","t","e","n",
    "c","y",")",".">>,
  \* Not shown: 992 closed tcp ports (reset)
  <<"N","o","t"," ","s","h","o","w","n",":"," ","9","9","2"," ","c","l","o","s","e","d"," ","t",
    "c","p"," ","p","o","r","t","s"," ","(","r","e","s","e","t",")">>,
  \* PORT     STATE SERVICE
  <<"P","O","R","T"," "," "," "," "," ","S","T","A","T","E"," ","S","E","R","V","I","C","E">>,
  \* 22/tcp   open  ssh
  <<"2","2","/","t","c","p"," "," "," ","o","p","e","n"," "," ","s","s","h">>,
  \* 80/tcp   open  http
  <<"8","0","/","t","c","p"," "," "," ","o","p","e","n"," "," ","h","t","t","p">>,
  \* 81/tcp   open  hosts2-ns
  <<"8","1","/","t","c","p"," "," "," ","o","p","e","n"," "," ","h","o","s","t","s","2","-","n",
    "s">>,
  \* 135/tcp  open  msrpc
  <<"1","3","5","/","t","c","p"," "," ","o","p","e","n"," "," ","m","s","r","p","c">>,
  \* 139/tcp  open  netbios-ssn
  <<"1","3","9","/","t","c","p"," "," ","o","p","e","n"," "," ","n","e","t","b","i","o","s","-",
    "s","s","n">>,
  \* 445/tcp  open  microsoft-ds
  <<"4","4","5","/","t","c","p"," "," ","o","p","e","n"," "," ","m","i","c","r","o","s","o","f",
    "t","-","d","s">>,
  \* 3306/tcp open  mysql
  <<"3","3","0","6","/","t","c","p"," ","o","p","e","n"," "," ","m","y","s","q","l">>,
  \* 5985/tcp open  wsman
  <<"5","9","8","5","/","t","c","p"," ","o","p","e","n"," "," ","w","s","m","a","n">>,
  \* (empty line)
  <<>>,
  \* # Nmap done at Thu Jun  5 20:34:10 2025 -- 1 IP address (1 host up) scanned in 9.41 seconds
  <<"#"," ","N","m","a","p"," ","d","o","n","e"," ","a","t"," ","T","h","u"," ","J","u","n"," ",
    " ","5"," ","2","0",":","3","4",":","1","0"," ","2","0","2","5"," ","-","-"," ","1"," ","I",
    "P"," ","a","d","d","r","e","s","s"," ","(","1"," ","h","o","s","t"," ","u","p",")"," ","s",
    "c","a","n","n","e","d"," ","i","n"," ","9",".","4","1"," ","s","e","c","o","n","d","s">>
  >>

\* ---- input reports ------------------------------------------------------
ReadmePorts == {22, 80, 81, 135, 139, 445, 3306, 5985}

CatalogPorts ==
  UNION {Range(knownSignatures[s].Required) \cup Range(knownSignatures[s].Optional) :
         s \in 1..Len(knownSignatures)}

Universe == CatalogPorts \cup ReadmePorts

\* port sets the drawn reports start from
Bases ==
  { {},
    {80},
    {80, 443},
    {139, 445},
    {53, 88, 389, 445, 464, 3268},
    {111, 2049, 20048, 4045},
    {111, 2049, 4049},
    {3200, 3300, 3299, 8001},
    {6379, 16379, 26379},
    {25, 110, 143, 993},
    {8000, 8089, 9997} }

\* the subsets of S with at most n elements
RECURSIVE SubsetsUpTo(_, _)
SubsetsUpTo(S, n) == IF n = 0 THEN {{}}
                     ELSE LET prev == SubsetsUpTo(S, n - 1)
                          IN  prev \cup {e \cup {x} : e \in prev, x \in S}

Extras == SubsetsUpTo(Universe, MaxExtra)

RECURSIVE SetToSeq(_)
SetToSeq(S) == IF S = {} THEN <<>>
               ELSE LET x == CHOOSE y \in S : \A z \in S : y <= z
                    IN  <<x>> \o SetToSeq(S \ {x})

HeaderLine ==
  <<"P", "O", "R", "T", " ", " ", " ", " ", " ", "S", "T", "A", "T", "E", " ",
    "S", "E", "R", "V", "I", "C", "E">>

\* a table line of an nmap report: "<p>/tcp open  svc"
PortLine(p) == Itoa(p) \o SlashTcp \o <<" ">> \o OpenWord \o <<" ", " ", "s", "v", "c">>

ReportFile(S) ==
  LET ps == SetToSeq(S)
  IN  <<HeaderLine>> \o [k \in 1..Len(ps) |-> PortLine(ps[k])]

Rep(c, n) == [k \in 1..n |-> c]

ProbeDigits == { <<"8", "0">>, <<"0">>, <<"0", "4", "4", "3">> }

ProbeProtos == { SlashTcp, <<"/", "u", "d", "p">> }

ProbeGaps == {Rep(c, n) : c \in {" ", "\t"}, n \in 0..MaxGap}

ProbeStates ==
  { OpenWord,
    <<"c", "l", "o", "s", "e", "d">>,
    <<"f", "i", "l", "t", "e", "r", "e", "d">>,
    <<"o", "p", "e", "n", "|", "f", "i", "l", "t", "e", "r", "e", "d">>,
    <<"O", "P", "E", "N">> }

ProbeLines ==
  { Rep(" ", l) \o d \o pr \o g \o st \o <<" ", "s", "v", "c", " ">> :
      l \in 0..MaxLead, d \in ProbeDigits, pr \in ProbeProtos, g \in ProbeGaps,
      st \in ProbeStates }

ProbeBases == { {}, {139, 445} }

\* the reports a run is started on
Files ==
  {ReportFile(b \cup e) : b \in Bases, e \in Extras}
    \cup {ReportFile(b) \o <<p>> : b \in ProbeBases, p \in ProbeLines}
    \cup {ReadmeFile, <<>>}

\* ---- state --------------------------------------------------------------
VARIABLES
  nargs,      \* flag.NArg()
  readable,   \* whether os.Open succeeds on the argument
  file,       \* the lines of the report
  pc,         \* position in main / parseNmap
  lineNo,     \* next line the scanner delivers
  ports,      \* parseNmap's map under construction
  openPorts,  \* main's openPorts
  catalog,    \* the slice knownSignatures() returned, as it is in memory
  i,          \* index of the range loop over the catalog
  any,        \* main's any
  present,    \* main's present slice
  missing,    \* main's missing slice
  calls,      \* the hasAll calls made so far: signature index and result
  out         \* what has been printed so far

vars == <<nargs, readable, file, pc, lineNo, ports, openPorts, catalog, i, any,
          present, missing, calls, out>>

Piece(k, n, p) == [kind |-> k, name |-> n, ports |-> p]

Init ==
  /\ \/ nargs \in {0, 2} /\ readable = TRUE /\ file = <<>>
     \/ nargs = 1 /\ readable = FALSE /\ file = <<>>
     \/ nargs = 1 /\ readable = TRUE /\ file \in Files
  /\ pc = "args"
  /\ lineNo = 1
  /\ ports = {}
  /\ openPorts = {}
  /\ catalog = <<>>
  /\ i = 0
  /\ any = FALSE
  /\ present = <<>>
  /\ missing = <<>>
  /\ calls = <<>>
  /\ out = <<>>

\* main: flag.NArg() != 1 prints the usage line and exits
CheckArgs ==
  /\ pc = "args"
  /\ IF nargs # 1
     THEN /\ out' = Append(out, Piece("usage", "", <<>>))
          /\ pc' = "exit"
     ELSE /\ out' = out
          /\ pc' = "open"
  /\ UNCHANGED <<nargs, readable, file, lineNo, ports, openPorts, catalog, i, any,
                 present, missing, calls>>

\* parseNmap: os.Open; its error makes main log.Fatalf
OpenFile ==
  /\ pc = "open"
  /\ IF readable
     THEN /\ pc' = "scan"
          /\ out' = out
     ELSE /\ pc' = "exit"
          /\ out' = Append(out, Piece("fatal", "", <<>>))
  /\ UNCHANGED <<nargs, readable, file, lineNo, ports, openPorts, catalog, i, any,
                 present, missing, calls>>

\* parseNmap: one iteration of the scanner loop
ScanLine ==
  /\ pc = "scan"
  /\ lineNo <= Len(file)
  /\ ports' = ScanOne(ports, file[lineNo])
  /\ lineNo' = lineNo + 1
  /\ UNCHANGED <<nargs, readable, file, pc, openPorts, catalog, i, any, present,
                 missing, calls, out>>

\* parseNmap returns (s.Err() is nil: no line of these reports exceeds the
\* scanner's buffer); main tests len(openPorts) == 0
ParseReturn ==
  /\ pc = "scan"
  /\ lineNo > Len(file)
  /\ openPorts' = ports
  /\ IF Cardinality(ports) = 0
     THEN /\ out' = Append(out, Piece("noOpen", "", <<>>))
          /\ pc' = "done"
          /\ UNCHANGED <<catalog, i>>
     ELSE /\ out' = out
          /\ catalog' = knownSignatures
          /\ i' = 1
          /\ pc' = "loop"
  /\ UNCHANGED <<nargs, readable, file, lineNo, ports, any, present, missing, calls>>

\* loop head and the hasAll test of the current signature
TestSignature ==
  /\ pc = "loop"
  /\ i <= Len(catalog)
  /\ LET ok == hasAll(openPorts, catalog[i].Required)
     IN  /\ calls' = Append(calls, [sig |-> i, ok |-> ok])
         /\ IF ok
            THEN /\ any' = TRUE
                 /\ out' = Append(out, Piece("header", catalog[i].Name, <<>>))
                 /\ pc' = "required"
                 /\ i' = i
            ELSE /\ UNCHANGED <<any, out, pc>>
                 /\ i' = i + 1
  /\ UNCHANGED <<nargs, readable, file, lineNo, ports, openPorts, catalog, present, missing>>

\* Printf("Required ports %s are present", joinPorts(sig.Required, ...)):
\* sig.Required shares its array with the catalog element, joinPorts sorts it there
PrintRequired ==
  /\ pc = "required"
  /\ LET sorted == joinPorts(catalog[i].Required)
     IN  /\ catalog' = [catalog EXCEPT ![i].Required = sorted]
         /\ out' = Append(out, Piece("required", catalog[i].Name, sorted))
  /\ pc' = IF Len(catalog[i].Optional) > 0 THEN "present" ELSE "newline"
  /\ UNCHANGED <<nargs, readable, file, lineNo, ports, openPorts, i, any, present,
                 missing, calls>>

\* present := presentOptional(openPorts, sig.Optional); printed, sorted, when not empty
PrintPresent ==
  /\ pc = "present"
  /\ LET p == presentOptional(openPorts, catalog[i].Optional)
     IN  IF Len(p) > 0
         THEN /\ present' = joinPorts(p)
              /\ out' = Append(out, Piece("present", catalog[i].Name, joinPorts(p)))
         ELSE /\ present' = p
              /\ out' = out
  /\ pc' = "missing"
  /\ UNCHANGED <<nargs, readable, file, lineNo, ports, openPorts, catalog, i, any,
                 missing, calls>>

\* missing := diff(sig.Optional, present); printed, sorted, when not empty
PrintMissing ==
  /\ pc = "missing"
  /\ LET m == diff(catalog[i].Optional, present)
     IN  IF Len(m) > 0
         THEN /\ missing' = joinPorts(m)
              /\ out' = Append(out, Piece("missing", catalog[i].Name, joinPorts(m)))
         ELSE /\ missing' = m
              /\ out' = out
  /\ pc' = "newline"
  /\ UNCHANGED <<nargs, readable, file, lineNo, ports, openPorts, catalog, i, any,
                 present, calls>>

\* Printf("\n") closes the detection line; the loop goes to the next signature
EndLine ==
  /\ pc = "newline"
  /\ out' = Append(out, Piece("newline", catalog[i].Name, <<>>))
  /\ i' = i + 1
  /\ pc' = "loop"
  /\ UNCHANGED <<nargs, readable, file, lineNo, ports, openPorts, catalog, any,
                 present, missing, calls>>

\* Finish with the test of any dropped: the no-match message is always printed
FinishAlways ==
  /\ pc = "loop"
  /\ i > Len(catalog)
  /\ out' = out \o <<Piece("noSig", "", <<>>), Piece("blank", "", <<>>)>>
  /\ pc' = "done"
  /\ UNCHANGED <<nargs, readable, file, lineNo, ports, openPorts, catalog, i, any,
                 present, missing, calls>>

\* after the loop: the no-match message when any is false, then the blank line
Finish ==
  /\ pc = "loop"
  /\ i > Len(catalog)
  /\ out' = (IF any THEN out ELSE Append(out, Piece("noSig", "", <<>>)))
              \o <<Piece("blank", "", <<>>)>>
  /\ pc' = "done"
  /\ UNCHANGED <<nargs, readable, file, lineNo, ports, openPorts, catalog, i, any,
                 present, missing, calls>>

Next ==
  \/ CheckArgs
  \/ OpenFile
  \/ ScanLine
  \/ ParseReturn
  \/ TestSignature
  \/ PrintRequired
  \/ PrintPresent
  \/ PrintMissing
  \/ EndLine
  \/ Finish

Spec == Init /\ [][Next]_vars

TypeOK == pc \in {"args", "open", "scan", "loop", "required", "present", "missing",
                  "newline", "done", "exit"}

\* ---- vocabulary of the properties ---------------------------------------
\* positions of main at which the catalog loop has been entered
LoopPcs == {"loop", "required", "present", "missing", "newline"}

\* the run parsed its report, found open ports and finished the catalog loop
Evaluated == pc = "done" /\ openPorts # {}

IsHeader(p) == p.kind = "header"

IsPortList(p) == p.kind \in {"required", "present", "missing"}

IsDetectionPiece(p) == p.kind \in {"header", "required", "present", "missing", "newline"}

Printed(kind) == \E k \in 1..Len(out) : out[k].kind = kind

\* the names on the detection lines printed so far, in print order
DetectedNames == [k \in 1..Len(SelectSeq(out, IsHeader)) |-> SelectSeq(out, IsHeader)[k].name]

\* a signature's required ports as a set
Req(s) == Range(knownSignatures[s].Required)

Opt(s) == Range(knownSignatures[s].Optional)

\* the names of the first n catalog entries whose required ports are all in P
RECURSIVE SatisfiedNames(_, _)
SatisfiedNames(P, n) ==
  IF n = 0 THEN <<>>
  ELSE IF Req(n) \subseteq P
       THEN Append(SatisfiedNames(P, n - 1), knownSignatures[n].Name)
       ELSE SatisfiedNames(P, n - 1)

StrictlyAscending(s) == \A k \in 1..(Len(s) - 1) : s[k] < s[k + 1]

\* the port lists printed for the signature called name
ListOf(kind, name) ==
  LET hits == SelectSeq(out, LAMBDA p : p.kind = kind /\ p.name = name)
  IN  IF hits = <<>> THEN <<>> ELSE hits[1].ports

\* ---- C1 -----------------------------------------------------------------
\* C1: hasAll(P, S.Required) is true exactly when every required port of S is
\* in P, for every port set P the scanner builds (the empty one it starts
\* from included, the set it returns being the last) and every catalog
\* signature; each hasAll call of the run returned that value, and a
\* finished run over a non-empty port set has printed a detection line for S
\* exactly when S.Required is a subset of the port set.
C1_HasAllIffSubset ==
  /\ pc = "scan" =>
       \A s \in 1..Len(knownSignatures) :
         hasAll(ports, knownSignatures[s].Required) <=> (Req(s) \subseteq ports)
  /\ \A c \in 1..Len(calls) : calls[c].ok <=> (Req(calls[c].sig) \subseteq openPorts)
  /\ Evaluated =>
       \A s \in 1..Len(knownSignatures) :
         (\E k \in 1..Len(out) : IsHeader(out[k]) /\ out[k].name = knownSignatures[s].Name)
           <=> (Req(s) \subseteq openPorts)

C1_Witness ==
  /\ Evaluated
  /\ \E c \in 1..Len(calls) : calls[c].ok /\ Len(knownSignatures[calls[c].sig].Required) > 1
  /\ \E c \in 1..Len(calls) :
       /\ ~calls[c].ok
       /\ Req(calls[c].sig) \cap openPorts # {}

\* ---- C2 -----------------------------------------------------------------
\* C2: for every port set P the scanner builds (the empty one it starts from
\* included) and every optional list O of the catalog (empty ones included), presentOptional(P, O) is O
\* intersected with P and diff(O, present) is O minus P, as sets, so the two
\* partition O; the present and missing slices main computes for a matched
\* signature are such a partition of its optional ports.
C2_OptionalPartition ==
  /\ pc = "scan" =>
       \A s \in 1..Len(knownSignatures) :
         LET O  == knownSignatures[s].Optional
             pr == presentOptional(ports, O)
             mi == diff(O, pr)
         IN  /\ Range(pr) = Range(O) \cap ports
             /\ Range(mi) = Range(O) \ ports
             /\ Range(pr) \cup Range(mi) = Range(O)
             /\ Range(pr) \cap Range(mi) = {}
  /\ (pc = "newline" /\ Len(catalog[i].Optional) > 0) =>
       /\ Range(present) \cup Range(missing) = Range(catalog[i].Optional)
       /\ Range(present) \cap Range(missing) = {}
       /\ Range(present) = Range(catalog[i].Optional) \cap openPorts
       /\ Range(missing) = Range(catalog[i].Optional) \ openPorts

C2_Witness ==
  /\ pc = "newline"
  /\ Len(catalog[i].Optional) > 0
  /\ present # <<>>
  /\ missing # <<>>

\* ---- C3 -----------------------------------------------------------------
\* C3: when a run over a non-empty port set has finished, the names on its
\* detection lines are, in order, the names of the catalog entries whose
\* required ports are all open, each once, and nothing was printed for any
\* other entry; while the loop runs, the lines printed so far are those of
\* the satisfied entries among the ones already visited.
C3_CatalogOrder ==
  /\ Evaluated => DetectedNames = SatisfiedNames(openPorts, Len(knownSignatures))
  /\ (pc = "loop" /\ i >= 1) => DetectedNames = SatisfiedNames(openPorts, i - 1)
  /\ \A k \in 1..Len(out) :
       IsDetectionPiece(out[k]) =>
         \E s \in 1..Len(knownSignatures) :
           knownSignatures[s].Name = out[k].name /\ Req(s) \subseteq openPorts

C3_Witness ==
  /\ Evaluated
  /\ Len(DetectedNames) >= 2
  /\ DetectedNames[1] = "SMB / NetBIOS file share"
  /\ Len(calls) = Len(knownSignatures)
  /\ ~calls[2].ok

\* ---- C4 -----------------------------------------------------------------
\* C4: every required, present-optional and missing-optional port list that
\* has been printed is in strictly ascending numeric order.
C4_ListsAscending ==
  \A k \in 1..Len(out) : IsPortList(out[k]) => StrictlyAscending(out[k].ports)

\* the NFS entry declares its optional ports as 20048, 4045, 4049
C4_Witness ==
  /\ Evaluated
  /\ knownSignatures[5].Optional = <<20048, 4045, 4049>>
  /\ ListOf("required", knownSignatures[5].Name) = <<111, 2049>>
  /\ ListOf("present", knownSignatures[5].Name) = <<4045, 20048>>
  /\ ListOf("missing", knownSignatures[5].Name) = <<4049>>

\* ---- C5 -----------------------------------------------------------------
\* C5: a run that parsed its report ends in exactly one of three ways: the
\* port set is empty, only "No open ports found." was printed and no
\* signature was evaluated; or the port set is not empty, no signature
\* matched, and the no-signatures message but no detection line was printed;
\* or at least one detection line and neither message was printed.  The
\* empty-port-set message is printed exactly when the port set is empty.
C5_EmptyOutcome ==
  /\ openPorts = {}
  /\ out = <<Piece("noOpen", "", <<>>)>>
  /\ calls = <<>>
  /\ catalog = <<>>

C5_NoMatchOutcome ==
  /\ openPorts # {}
  /\ Printed("noSig")
  /\ ~Printed("header")
  /\ ~Printed("noOpen")
  /\ Len(calls) = Len(knownSignatures)

C5_MatchOutcome ==
  /\ openPorts # {}
  /\ Printed("header")
  /\ ~Printed("noSig")
  /\ ~Printed("noOpen")
  /\ Len(calls) = Len(knownSignatures)

C5_ThreeOutcomes ==
  pc = "done" =>
    /\ C5_EmptyOutcome \/ C5_NoMatchOutcome \/ C5_MatchOutcome
    /\ ~(C5_EmptyOutcome /\ C5_NoMatchOutcome)
    /\ ~(C5_EmptyOutcome /\ C5_MatchOutcome)
    /\ ~(C5_NoMatchOutcome /\ C5_MatchOutcome)
    /\ Printed("noOpen") <=> (openPorts = {})

C5_Witness == pc = "done" /\ C5_MatchOutcome /\ Len(file) > 1

\* ---- C6 -----------------------------------------------------------------
\* C6 as stated: a finished run whose open ports are {80, 443} printed no
\* detection line and printed the no-signatures message.
C6_NoMatchFor80And443 ==
  (pc = "done" /\ openPorts = {80, 443}) => (~Printed("header") /\ Printed("noSig"))

\* C6 amended: a finished run whose open ports are {80, 443} printed exactly
\* one detection line, for "VMware vCenter Server" with required port 443
\* and its optional ports 902 and 5480 missing, and neither message; a
\* finished run whose only open port is 80 printed no detection line and the
\* no-signatures message, and not the empty-port-set message.
C6_VCenterFor80And443 ==
  /\ (pc = "done" /\ openPorts = {80, 443}) =>
       /\ DetectedNames = <<"VMware vCenter Server">>
       /\ ListOf("required", "VMware vCenter Server") = <<443>>
       /\ ListOf("present", "VMware vCenter Server") = <<>>
       /\ ListOf("missing", "VMware vCenter Server") = <<902, 5480>>
       /\ ~Printed("noSig")
       /\ ~Printed("noOpen")
  /\ (pc = "done" /\ openPorts = {80}) =>
       /\ DetectedNames = <<>>
       /\ Printed("noSig")
       /\ ~Printed("noOpen")

C6_Witness == pc = "done" /\ openPorts = {80, 443} /\ Len(calls) = Len(knownSignatures)

\* ---- C7 -----------------------------------------------------------------
\* C7: the run on the README's example report prints exactly two detection
\* lines: "SMB / NetBIOS file share" with required ports 139, 445 and then
\* "Windows RPC services (EPM + dynamic RPC)" with required port 135.
C7_ReadmeExample ==
  (pc = "done" /\ file = ReadmeFile) =>
    /\ openPorts = ReadmePorts
    /\ DetectedNames = <<"SMB / NetBIOS file share",
                         "Windows RPC services (EPM + dynamic RPC)">>
    /\ ListOf("required", "SMB / NetBIOS file share") = <<139, 445>>
    /\ ListOf("required", "Windows RPC services (EPM + dynamic RPC)") = <<135>>

\* ---- C8 -----------------------------------------------------------------
\* the state field of a table line: the characters from position k up to the
\* next white space
RECURSIVE RunOfNonSpace(_, _)
RunOfNonSpace(s, k) ==
  IF k <= Len(s) /\ ~IsSpace(s[k]) THEN 1 + RunOfNonSpace(s, k + 1) ELSE 0

\* the port a line contributes when its trimmed form is "<p>/tcp", white
\* space, and a state field that is exactly the word open; 0 otherwise
OpenPortOfLine(text) ==
  LET line == TrimSpace(text)
      d == RunOfDigits(line, 1)
      w == RunOfSpace(line, d + 5)
      t == RunOfNonSpace(line, d + 5 + w)
  IN  IF /\ d >= 1
         /\ HasAt(line, d + 1, SlashTcp)
         /\ w >= 1
         /\ SubSeq(line, d + 5 + w, d + 4 + w + t) = OpenWord
      THEN Atoi(SubSeq(line, 1, d))
      ELSE 0

\* C8: once parseNmap has returned, the port set holds p exactly when p > 0
\* and some line of the report is "<p>/tcp", white space, state "open"; a
\* line with any other state field contributes nothing.
C8_ExactlyOpenLines ==
  (pc \in LoopPcs \cup {"done"}) =>
    openPorts = {OpenPortOfLine(file[k]) : k \in 1..Len(file)} \ {0}

\* ---- C9 -----------------------------------------------------------------
\* C9: every signature of the catalog the loop walks has at least one
\* required port, so it does not match the empty port set, and no port is
\* both required and optional for it.
C9_CatalogWellFormed ==
  \A s \in 1..Len(catalog) :
    /\ Len(catalog[s].Required) >= 1
    /\ ~hasAll({}, catalog[s].Required)
    /\ Range(catalog[s].Required) \cap Range(catalog[s].Optional) = {}

C9_Witness == pc \in LoopPcs /\ Len(catalog) = Len(knownSignatures) /\ i = Len(catalog)

\* ---- C10 ----------------------------------------------------------------
\* C10: no step taken once the catalog loop has been entered changes the
\* catalog or the open-port set: the catalog stays element for element what
\* knownSignatures declared.
C10_CatalogAndPortsFrozen ==
  [][(pc \in LoopPcs) =>
       /\ catalog = knownSignatures
       /\ catalog' = catalog
       /\ openPorts' = openPorts]_vars

\* joinPorts has sorted the required and the present slice of the NFS entry,
\* whose optional ports are declared out of order
C10_Witness ==
  /\ pc = "newline"
  /\ catalog[i].Optional = <<20048, 4045, 4049>>
  /\ present = <<4045, 20048>>
  /\ missing = <<4049>>
  /\ Printed("required")

====
